---- MODULE Spec2Model ----
(***************************************************************************)
(* Verification model of the IoT water dashboard (src/app.py).             *)
(*                                                                         *)
(* The Streamlit script is re-run top to bottom on every interaction; one  *)
(* action of the model is one such run (or one pure helper applied to one  *)
(* input).  Five specifications share the session state:                   *)
(*   SpecFilter   the sidebar filters that build the working subset,       *)
(*   SpecStatus   derive_status_counts applied to a frame,                 *)
(*   SpecQuality  the KPI block and the Data Quality tab,                  *)
(*   Spec         the feedback tab (CSV log + per-entry JSON documents),   *)
(*   SpecConc     two sessions reading and writing the feedback log.       *)
(***************************************************************************)
EXTENDS Integers, Sequences, FiniteSets, TLC

VARIABLES
    authenticated, role, client_name,   \* st.session_state
    event,                              \* what the last script run did
    df,                                 \* the loaded dataset (read-only)
    sel, date_range, working,           \* sidebar inputs and the working subset
    frame, has_status, categories,      \* the frame given to derive_status_counts
    observed, sc,                       \* groupby's default, and the counts returned
    csv_exists, csv,                    \* feedbacks.csv: present?, its rows
    history,                            \* feedback_history/: ID -> JSON document
    issued,                             \* uuids issued so far
    form,                               \* the feedback form widgets (fb_* keys)
    columns,                            \* working.columns, for the KPI block
    kpi,                                \* the three metrics of kpi_metrics
    dup, ddf,                           \* Data Quality: duplicate count and list
    low, high, flagged,                 \* Data Quality: allowed range and flags
    proc,                               \* feedback operations of concurrent sessions
    clock                               \* order of their file reads and writes

session == <<authenticated, role, client_name>>
filterVars == <<df, sel, date_range, working>>
statusVars == <<frame, has_status, categories, observed, sc>>
store == <<csv_exists, csv, history, issued>>
feedbackVars == <<csv_exists, csv, history, issued, form>>
qualityVars == <<columns, kpi, dup, ddf, low, high, flagged>>
concVars == <<proc, clock>>
vars == <<authenticated, role, client_name, event, df, sel, date_range, working,
          frame, has_status, categories, observed, sc,
          csv_exists, csv, history, issued, form,
          columns, kpi, dup, ddf, low, high, flagged, proc, clock>>

\* Python's None, pandas' NaN (a missing categorical / text cell) and NaT.
None == "None"
NaN == "<NA>"
NaT == -1

(***************************************************************************)
(* Credentials and session state                                           *)
(***************************************************************************)
USERS ==
    ("admin" :> [password |-> "admin123", role |-> "admin",  client_name |-> "admin"]) @@
    ("AVPN"  :> [password |-> "avpn123",  role |-> "client", client_name |-> "AVPN"])  @@
    ("CIPT"  :> [password |-> "cipt123",  role |-> "client", client_name |-> "CIPT"])  @@
    ("Titan" :> [password |-> "titan123", role |-> "client", client_name |-> "Titan"])

\* What is typed into the login form: every known user, one unknown name,
\* every real password and one wrong one.
UsernameInputs == DOMAIN USERS \cup {"guest"}
PasswordInputs == {USERS[u].password : u \in DOMAIN USERS} \cup {"wrong"}

SessionInit ==
    /\ authenticated = FALSE
    /\ role = None
    /\ client_name = None

\* do_login accepting the password of any user for a known username.
do_loginAnyPassword(username, password) ==
    /\ ~authenticated
    /\ IF username \in DOMAIN USERS
          /\ password \in {USERS[u].password : u \in DOMAIN USERS}
       THEN /\ authenticated' = TRUE
            /\ role' = USERS[username].role
            /\ client_name' = USERS[username].client_name
            /\ event' = "login_ok"
       ELSE /\ UNCHANGED session
            /\ event' = "login_failed"

\* do_login: reached only while not authenticated (the gate of line 70).
do_login(username, password) ==
    /\ ~authenticated
    /\ IF username \in DOMAIN USERS /\ USERS[username].password = password
       THEN /\ authenticated' = TRUE
            /\ role' = USERS[username].role
            /\ client_name' = USERS[username].client_name
            /\ event' = "login_ok"
       ELSE /\ UNCHANGED session
            /\ event' = "login_failed"

\* do_logout: the sidebar button, shown only past the gate.
do_logout ==
    /\ authenticated
    /\ authenticated' = FALSE
    /\ role' = None
    /\ client_name' = None
    /\ event' = "logout"

\* The status variables while no frame is being classified.
StatusIdle ==
    /\ frame = <<>>
    /\ has_status = FALSE
    /\ categories = {}
    /\ observed = TRUE
    /\ sc = <<>>

\* The KPI block and the Data Quality tab before they are rendered.
QualityIdle ==
    /\ columns = {}
    /\ kpi = [farmers |-> 0, devices |-> 0, readings |-> 0]
    /\ dup = 0
    /\ ddf = <<>>
    /\ low = 0
    /\ high = 0
    /\ flagged = <<>>

\* No feedback operation of a second session under way.
ConcIdle ==
    /\ proc = <<>>
    /\ clock = 0

\* The feedback form before anything is entered.
NoForm == [fb_status |-> None, fb_sat |-> 0, fb_reason |-> "",
           fb_changes |-> "", fb_comment |-> ""]

\* A fresh deployment: no feedbacks.csv, an empty feedback_history.
FeedbackIdle ==
    /\ csv_exists = FALSE
    /\ csv = <<>>
    /\ history = <<>>
    /\ issued = 0
    /\ form = NoForm

(***************************************************************************)
(* Filters: the working subset                                             *)
(***************************************************************************)
MaxRows == 2
MaxDay == 2

DaySeconds == 86400
IstOffset == 19800

\* The rows a dataset of the model is drawn from.  Timestamps are UTC
\* seconds.  Day d of the date input, taken as an IST day, runs from
\* d * 86400 - 19800 to (d + 1) * 86400 - 19801: 90000 lies in day 1, 152999
\* is the last second of day 1, 153000 the first of day 2, 239399 the last
\* of day 2 and 239400 the first second after it.
RowPool == {
    [Client |-> "AVPN", District |-> "D1", DeviceType |-> "Fixed",
     FarmerName |-> "F1", DeviceID |-> "dev1", Timestamp |-> 152999],
    [Client |-> "AVPN", District |-> "D2", DeviceType |-> "Portable",
     FarmerName |-> "F2", DeviceID |-> "dev2", Timestamp |-> 153000],
    [Client |-> "CIPT", District |-> "D1", DeviceType |-> "Fixed",
     FarmerName |-> "F1", DeviceID |-> "dev1", Timestamp |-> 90000],
    [Client |-> "CIPT", District |-> "D2", DeviceType |-> "Portable",
     FarmerName |-> "F3", DeviceID |-> "dev3", Timestamp |-> NaT],
    [Client |-> NaN, District |-> "D1", DeviceType |-> "Portable",
     FarmerName |-> NaN, DeviceID |-> "dev2", Timestamp |-> 239400],
    [Client |-> "Titan", District |-> NaN, DeviceType |-> NaN,
     FarmerName |-> "F2", DeviceID |-> NaN, Timestamp |-> 239399] }

Datasets == UNION {[1..n -> RowPool] : n \in 0..MaxRows}

Days == 1..MaxDay
\* st.sidebar.date_input returns one date while a range is being picked,
\* and two (start <= end) once it is complete.
DateInputs == {<<d>> : d \in Days} \cup
              {r \in {<<s, e>> : s \in Days, e \in Days} : r[1] <= r[2]}

NoSel == [client_sel |-> {}, district_sel |-> {}, dtype_sel |-> {},
          farmer_sel |-> {}, device_sel |-> {}]

\* sorted(frame[col].dropna().unique().tolist()): the options of a multiselect.
Options(tbl, col) == {tbl[i][col] : i \in DOMAIN tbl} \ {NaN}

\* frame[frame[col].isin(picked)] without the `if picked:` guard.
IsinUnguarded(tbl, col, picked) ==
    SelectSeq(tbl, LAMBDA r : r[col] \in picked)

\* frame[frame[col].isin(picked)] under `if picked:`.
Isin(tbl, col, picked) ==
    IF picked = {} THEN tbl
    ELSE SelectSeq(tbl, LAMBDA r : r[col] \in picked)

\* Lines 163-165: the client scope.
Scope(tbl, r, cn) ==
    IF r = "client" THEN SelectSeq(tbl, LAMBDA row : row.Client = cn) ELSE tbl

\* Lines 167-198: the categorical filters of the admin and of a client.
Categorical(tbl, r, s) ==
    IF r = "admin"
    THEN Isin(Isin(Isin(tbl, "Client", s.client_sel),
                   "District", s.district_sel),
              "DeviceType", s.dtype_sel)
    ELSE Isin(Isin(Isin(Isin(tbl, "District", s.district_sel),
                        "DeviceType", s.dtype_sel),
                   "FarmerName", s.farmer_sel),
              "DeviceID", s.device_sel)

\* Lines 200-205: the date filter, active when two dates are given.
start_utc(dr) == dr[1] * DaySeconds - IstOffset
\* Line 203 without the added day: the end boundary at 00:00:00 of `end`.
end_utcMidnight(dr) == dr[2] * DaySeconds - IstOffset
end_utc(dr) == (dr[2] + 1) * DaySeconds - 1 - IstOffset
DateFilter(tbl, dr) ==
    IF Len(dr) = 2
    THEN SelectSeq(tbl, LAMBDA row : /\ row.Timestamp # NaT
                                       /\ row.Timestamp >= start_utc(dr)
                                       /\ row.Timestamp <= end_utc(dr))
    ELSE tbl

\* A categorical filter applied to the whole dataset instead of the scoped
\* frame (working = df[df[col].isin(...)]).
ApplyFiltersUnscoped(data, r, cn, s, dr) ==
    DateFilter(IF s.district_sel = {} THEN Categorical(Scope(data, r, cn), r, s)
               ELSE Categorical(data, r, s), dr)

\* Lines 163-205 as one function of the dataset, the session and the inputs.
ApplyFilters(data, r, cn, s, dr) ==
    DateFilter(Categorical(Scope(data, r, cn), r, s), dr)

\* The widgets of the sidebar for a role, and the column each one filters.
Widgets(r) ==
    IF r = "admin" THEN {"client_sel", "district_sel", "dtype_sel"}
    ELSE {"district_sel", "dtype_sel", "farmer_sel", "device_sel"}

WidgetColumn ==
    ("client_sel" :> "Client") @@ ("district_sel" :> "District") @@
    ("dtype_sel" :> "DeviceType") @@ ("farmer_sel" :> "FarmerName") @@
    ("device_sel" :> "DeviceID")

\* The widgets as first rendered: nothing selected, and a date range that
\* reaches back from the newest reading over the whole dataset.
DefaultDateRange == <<1, MaxDay>>

\* One run of the script past the gate with the sidebar set to (s, dr).
Rerun(s, dr) ==
    /\ sel' = s
    /\ date_range' = dr
    /\ working' = ApplyFilters(df, role', client_name', s, dr)
    /\ UNCHANGED df

InitFilter ==
    /\ SessionInit
    /\ event = "init"
    /\ df \in Datasets
    /\ sel = NoSel
    /\ date_range = DefaultDateRange
    /\ working = <<>>
    /\ StatusIdle
    /\ FeedbackIdle
    /\ QualityIdle
    /\ ConcIdle

\* The login form; a successful login ends in st.rerun(), which renders the
\* page with fresh widgets.
LoginFilter ==
    \E u \in UsernameInputs, p \in PasswordInputs :
        /\ do_login(u, p)
        /\ IF authenticated' THEN Rerun(NoSel, DefaultDateRange)
           ELSE UNCHANGED filterVars
        /\ UNCHANGED <<statusVars, feedbackVars, qualityVars, concVars>>

\* Logout ends in st.rerun(): the run stops at the gate, so no working
\* subset is built and the sidebar widgets are gone.
LogoutFilter ==
    /\ do_logout
    /\ sel' = NoSel
    /\ date_range' = DefaultDateRange
    /\ working' = <<>>
    /\ UNCHANGED <<df, statusVars, feedbackVars, qualityVars, concVars>>

\* The user changes one multiselect; its options are the values present in
\* the scoped frame (lines 168-170, 183-186).
SelectFilter ==
    /\ authenticated
    /\ UNCHANGED session
    /\ \E w \in Widgets(role) :
         \E picked \in SUBSET Options(Scope(df, role, client_name), WidgetColumn[w]) :
            /\ picked # sel[w]
            /\ Rerun([sel EXCEPT ![w] = picked], date_range)
    /\ event' = "rerun"
    /\ UNCHANGED <<statusVars, feedbackVars, qualityVars, concVars>>

\* The user changes the date input.
DateFilterInput ==
    /\ authenticated
    /\ UNCHANGED session
    /\ \E dr \in DateInputs : dr # date_range /\ Rerun(sel, dr)
    /\ event' = "rerun"
    /\ UNCHANGED <<statusVars, feedbackVars, qualityVars, concVars>>

NextFilter == LoginFilter \/ LogoutFilter \/ SelectFilter \/ DateFilterInput

SpecFilter == InitFilter /\ [][NextFilter]_vars

\* C1: in a client session every row of the working subset belongs to the
\* session's client, whatever the selections and the date range are.
C1_ClientScope ==
    role = "client" =>
        \A i \in DOMAIN working : working[i].Client = client_name

\* C1 witness: a client run with a categorical selection and an active date
\* range that keeps a row, over a dataset holding another client's row that
\* matches the same selection and dates.
C1_Witness ==
    /\ event = "rerun" /\ role = "client"
    /\ sel.district_sel # {} /\ Len(date_range) = 2
    /\ Len(working) > 0
    /\ \E i \in DOMAIN df :
          /\ df[i].Client # client_name
          /\ Len(DateFilter(Categorical(<<df[i]>>, role, sel), date_range)) = 1

\* The rows an empty or non-empty selection lets through: a widget with
\* nothing selected restricts nothing.
PassesSelections(row) ==
    \A w \in Widgets(role) : sel[w] # {} => row[WidgetColumn[w]] \in sel[w]

\* C12: the working subset is the scoped, date-filtered dataset restricted
\* by the non-empty selections only; an empty selection is the absent filter.
C12_EmptySelectionNoRestriction ==
    authenticated =>
        working = SelectSeq(DateFilter(Scope(df, role, client_name), date_range),
                            PassesSelections)

\* C12 witness: one widget restricts, the others are empty, and rows remain.
C12_Witness ==
    /\ event = "rerun" /\ role = "admin"
    /\ sel.client_sel = {} /\ sel.district_sel = {"D1"} /\ sel.dtype_sel = {}
    /\ Len(working) = 2

\* A Timestamp inside [start 00:00:00 IST, end 23:59:59 IST], in UTC seconds.
InDateRange(row) ==
    /\ row.Timestamp # NaT
    /\ date_range[1] * 86400 - 19800 <= row.Timestamp
    /\ row.Timestamp <= date_range[2] * 86400 + 86399 - 19800

\* C13: with two dates given, the rows kept are exactly the rows passing
\* the other filters whose Timestamp is non-null and within the range, both
\* ends included.
C13_DateRangeInclusive ==
    (authenticated /\ Len(date_range) = 2) =>
        working = SelectSeq(Categorical(Scope(df, role, client_name), role, sel),
                            InDateRange)

\* C13 witness: the range is day 1 alone; the reading of its last second is
\* kept and the reading one second later is dropped.
C13_Witness ==
    /\ event = "rerun" /\ date_range = <<1, 1>> /\ sel = NoSel
    /\ Len(df) = 2 /\ df[1].Timestamp = 152999 /\ df[2].Timestamp = 153000
    /\ working = <<df[1]>>

\* The session fields are those of one user, or all reset.
SessionOK ==
    IF authenticated
    THEN \E u \in DOMAIN USERS :
            role = USERS[u].role /\ client_name = USERS[u].client_name
    ELSE role = None /\ client_name = None

\* C17: the session fields are a user's exactly while authenticated; a login
\* attempt authenticates as the user named iff that user's password was
\* given and otherwise changes nothing; a logout resets the three fields.
C17_SessionState ==
    /\ []SessionOK
    /\ [][/\ \A u \in UsernameInputs, p \in PasswordInputs :
              do_login(u, p) =>
                 IF u \in DOMAIN USERS /\ USERS[u].password = p
                 THEN /\ authenticated'
                      /\ role' = USERS[u].role
                      /\ client_name' = USERS[u].client_name
                 ELSE UNCHANGED session
          /\ event' = "logout" =>
                 (~authenticated' /\ role' = None /\ client_name' = None)]_vars

\* C17 witness: a refused attempt at the login form.
C17_Witness ==
    /\ event = "login_failed"
    /\ ~authenticated /\ role = None /\ client_name = None

(***************************************************************************)
(* Status derivation: derive_status_counts                                 *)
(***************************************************************************)
MaxFrameRows == 2

DEFAULT_STATUS_HOURS == 24
\* pd.Timestamp.now(tz="UTC"), in hours; Timestamps of a frame are hours too.
now_utc == 100

Devices == {"D1", "D2"}
StatusValues == {"Active", "Faulty"}
\* 3 h, 24 h (the boundary) and 30 h before now_utc.
FrameTimestamps == {NaT, now_utc - 30, now_utc - DEFAULT_STATUS_HOURS, now_utc - 3}

FrameRows(withStatus) ==
    [DeviceID : Devices \cup {NaN},
     Status : IF withStatus THEN StatusValues \cup {NaN} ELSE {NaN},
     Timestamp : FrameTimestamps]

Frames(withStatus) == UNION {[1..n -> FrameRows(withStatus)] : n \in 0..MaxFrameRows}

DevicesOf(rows) == {rows[i].DeviceID : i \in DOMAIN rows}

\* Series.nunique per group of groupby(label): label -> number of distinct
\* devices carrying it; only labels that occur get a row.
CountBy(devs, label) ==
    [s \in {label[d] : d \in devs} |-> Cardinality({d \in devs : label[d] = s})]

\* Line 251, mutated: the explicit branch taken only when no Status is null.
HasExplicitStatusAll(rows, withStatus) ==
    withStatus /\ \A i \in DOMAIN rows : rows[i].Status # NaN

\* Line 251: "Status" in frame.columns and frame["Status"].notna().any().
HasExplicitStatus(rows, withStatus) ==
    withStatus /\ \E i \in DOMAIN rows : rows[i].Status # NaN

\* Lines 252-254: dropna(DeviceID, Status), drop_duplicates(DeviceID,
\* keep="last") in frame order, then distinct devices per Status.
ExplicitCounts(rows) ==
    LET kept == SelectSeq(rows, LAMBDA r : r.DeviceID # NaN /\ r.Status # NaN)
        lastRow(d) == CHOOSE i \in DOMAIN kept :
                          /\ kept[i].DeviceID = d
                          /\ \A j \in DOMAIN kept : kept[j].DeviceID = d => j <= i
        lastStatus == [d \in DevicesOf(kept) |-> kept[lastRow(d)].Status]
    IN CountBy(DevicesOf(kept), lastStatus)

\* Line 256, mutated: only the empty frame is "No Data".
IsNoDataEmptyOnly(rows) == Len(rows) = 0

\* Line 256: frame.empty or frame["Timestamp"].isna().all().
IsNoData(rows) ==
    Len(rows) = 0 \/ \A i \in DOMAIN rows : rows[i].Timestamp = NaT

\* Lines 258-264: last reading per device against the threshold.  DeviceID
\* is a categorical column (line 116): groupby("DeviceID") yields one group
\* per observed device when `obs`, and one per category of the column
\* (with Timestamp NaT for a category without rows) otherwise.
RecencyCounts(rows, cats, obs, hours) ==
    LET kept == SelectSeq(rows, LAMBDA r : r.DeviceID # NaN /\ r.Timestamp # NaT)
        groups == IF obs THEN DevicesOf(kept) ELSE cats
        stamps(d) == {kept[i].Timestamp : i \in {j \in DOMAIN kept : kept[j].DeviceID = d}}
        lastSeen(d) == IF stamps(d) = {} THEN NaT
                       ELSE CHOOSE t \in stamps(d) : \A u \in stamps(d) : u <= t
        threshold == now_utc - hours
        label == [d \in groups |-> IF lastSeen(d) # NaT /\ lastSeen(d) >= threshold
                                    THEN "Online" ELSE "Offline"]
    IN CountBy(groups, label)

\* Lines 250-265.  The result maps each Status of the returned table to its
\* DeviceCount.
derive_status_counts(rows, withStatus, cats, obs, hours) ==
    IF HasExplicitStatus(rows, withStatus) THEN ExplicitCounts(rows)
    ELSE IF IsNoData(rows) THEN ("No Data" :> 0)
    ELSE RecencyCounts(rows, cats, obs, hours)

\* The frame is a subset of the dataset, whose DeviceID categories cover at
\* least the devices of the frame.  groupby's default for `observed` is
\* False before pandas 3.0 and True from 3.0 on; the repository pins neither.
InitStatus ==
    /\ SessionInit
    /\ event = "init"
    /\ df = <<>> /\ sel = NoSel /\ date_range = DefaultDateRange /\ working = <<>>
    /\ has_status \in BOOLEAN
    /\ frame \in Frames(has_status)
    /\ categories \in {c \in SUBSET Devices : (DevicesOf(frame) \ {NaN}) \subseteq c}
    /\ observed \in BOOLEAN
    /\ sc = <<>>
    /\ FeedbackIdle
    /\ QualityIdle
    /\ ConcIdle

\* Line 324: sc = derive_status_counts(working, hours=DEFAULT_STATUS_HOURS).
DeriveStatus ==
    /\ event = "init"
    /\ sc' = derive_status_counts(frame, has_status, categories, observed,
                                  DEFAULT_STATUS_HOURS)
    /\ event' = "derived"
    /\ UNCHANGED <<session, filterVars, frame, has_status, categories, observed,
                   feedbackVars, qualityVars, concVars>>

NextStatus == DeriveStatus

SpecStatus == InitStatus /\ [][NextStatus]_vars

\* The DeviceCount column summed over the rows keyed by `keys`.
RECURSIVE SumCounts(_, _)
SumCounts(counts, keys) ==
    IF keys = {} THEN 0
    ELSE LET k == CHOOSE x \in keys : TRUE
         IN counts[k] + SumCounts(counts, keys \ {k})

\* The claims' cases, read off the frame: the Status column exists with a
\* non-null value; some Timestamp is non-null.
SomeStatus == has_status /\ \E i \in DOMAIN frame : frame[i].Status # NaN
SomeTimestamp == \E i \in DOMAIN frame : frame[i].Timestamp # NaT

\* The rows that carry a device and a status.
StatusRows == SelectSeq(frame, LAMBDA r : r.DeviceID # NaN /\ r.Status # NaN)

\* The status of device d's most recent row by Timestamp: the last row of
\* d after a stable ascending sort by Timestamp.
MostRecentStatus(d) ==
    LET rows == StatusRows
        i == CHOOSE k \in DOMAIN rows :
                 /\ rows[k].DeviceID = d
                 /\ \A j \in DOMAIN rows : rows[j].DeviceID = d =>
                        \/ rows[j].Timestamp < rows[k].Timestamp
                        \/ (rows[j].Timestamp = rows[k].Timestamp /\ j <= k)
    IN rows[i].Status

\* C2: with an explicit Status, the counts are those of each device's most
\* recent status row by Timestamp, whatever the order of the rows (stated for
\* frames whose status rows all carry a Timestamp).
C2_MostRecentByTimestamp ==
    (/\ event = "derived"
     /\ SomeStatus
     /\ \A i \in DOMAIN StatusRows : StatusRows[i].Timestamp # NaT)
    => sc = CountBy(DevicesOf(StatusRows),
                    [d \in DevicesOf(StatusRows) |-> MostRecentStatus(d)])

\* C3: with an explicit non-null Status the result is keyed only by Status
\* values of the data and counts every device that has a status exactly once;
\* no Online / Offline / "No Data" row appears.
C3_NoFallThrough ==
    (event = "derived" /\ SomeStatus) =>
        /\ DOMAIN sc \subseteq {frame[i].Status : i \in DOMAIN frame} \ {NaN}
        /\ DOMAIN sc \cap {"Online", "Offline", "No Data"} = {}
        /\ \A s \in DOMAIN sc : sc[s] >= 1
        /\ SumCounts(sc, DOMAIN sc) = Cardinality(DevicesOf(StatusRows))

\* C3 witness: an explicit status next to a null one, with timestamps both
\* recent and old, classified by status alone.
C3_Witness ==
    /\ event = "derived" /\ SomeStatus
    /\ \E i \in DOMAIN frame : frame[i].Status = NaN /\ frame[i].Timestamp = now_utc - 3
    /\ \E i \in DOMAIN frame : frame[i].Status # NaN /\ frame[i].Timestamp = now_utc - 30
    /\ DOMAIN sc = {"Faulty"}

\* The devices of the frame that have a reading, and the label the recency
\* rule gives each.
SeenDevices ==
    {frame[i].DeviceID : i \in {j \in DOMAIN frame :
        frame[j].DeviceID # NaN /\ frame[j].Timestamp # NaT}}

RecencyLabel(d) ==
    IF \E i \in DOMAIN frame :
          /\ frame[i].DeviceID = d /\ frame[i].Timestamp # NaT
          /\ frame[i].Timestamp >= now_utc - DEFAULT_STATUS_HOURS
    THEN "Online" ELSE "Offline"

\* C4: without an explicit Status and with some Timestamp, each device that
\* has a reading is counted exactly once, Online iff its newest reading is
\* at or after now - threshold.
C4_RecencyCounts ==
    (/\ event = "derived"
     /\ ~SomeStatus
     /\ SomeTimestamp)
    => sc = CountBy(SeenDevices, [d \in SeenDevices |-> RecencyLabel(d)])

\* C5: an empty frame, or one without explicit Status whose Timestamps are
\* all null, yields exactly {"No Data": 0}.
C5_NoData ==
    (/\ event = "derived"
     /\ ~SomeStatus
     /\ (Len(frame) = 0 \/ \A i \in DOMAIN frame : frame[i].Timestamp = NaT))
    => (DOMAIN sc = {"No Data"} /\ sc["No Data"] = 0)

\* C5 witness: a non-empty frame with a Status column that is all null and
\* no Timestamp at all, over a dataset that knows devices.
C5_Witness ==
    /\ event = "derived"
    /\ has_status /\ Len(frame) > 0 /\ categories # {}
    /\ DevicesOf(frame) # {NaN}
    /\ ~SomeStatus
    /\ \A i \in DOMAIN frame : frame[i].Timestamp = NaT
    /\ DOMAIN sc = {"No Data"}

(***************************************************************************)
(* KPI block and Data Quality tab                                          *)
(*                                                                         *)
(* kpi_metrics(working), the duplicate check and the out-of-range flags    *)
(* are functions of the working subset (and of the two number inputs);     *)
(* each is applied in turn, in the order of the script, to a subset drawn  *)
(* from a pool of readings.                                                *)
(***************************************************************************)
MaxQualityRows == 4

\* np.nan in the numeric WaterLevel column.
NaNLevel == -1

\* Readings: dev/time keys that repeat, farmers that share a name under
\* different FarmerIDs, null cells, and the levels 10, 20, 30, 1000.
QualityPool == {
    [DeviceID |-> "D1", Timestamp |-> 1, FarmerName |-> "F1", FarmerID |-> "P1",
     WaterLevel |-> 10],
    [DeviceID |-> "D1", Timestamp |-> 1, FarmerName |-> "F1", FarmerID |-> "P1",
     WaterLevel |-> 20],
    [DeviceID |-> "D2", Timestamp |-> 2, FarmerName |-> "F2", FarmerID |-> "P2",
     WaterLevel |-> 30],
    [DeviceID |-> "D2", Timestamp |-> 1, FarmerName |-> "F1", FarmerID |-> "P3",
     WaterLevel |-> 1000],
    [DeviceID |-> NaN, Timestamp |-> NaT, FarmerName |-> NaN, FarmerID |-> NaN,
     WaterLevel |-> NaNLevel],
    [DeviceID |-> NaN, Timestamp |-> NaT, FarmerName |-> "F2", FarmerID |-> NaN,
     WaterLevel |-> 20] }

\* The columns load_data guarantees, and the optional FarmerID column.
BaseColumns == {"Timestamp", "Client", "District", "DeviceID", "DeviceType",
                "FarmerName", "WaterLevel"}
Schemas == {BaseColumns, BaseColumns \cup {"FarmerID"}}

\* The subsets of a schema; without a FarmerID column the cell is absent.
QualityFrames(cols) ==
    LET rows == IF "FarmerID" \in cols THEN QualityPool
                ELSE {[r EXCEPT !.FarmerID = NaN] : r \in QualityPool}
    IN UNION {[1..n -> rows] : n \in 0..MaxQualityRows}

\* st.number_input: the allowed range typed by the user.
LowInputs == {0, 20}
HighInputs == {30, 100}

\* Series.nunique(dropna=False): a null cell counts as one more value.
NuniqueKeepNull(tbl, col) ==
    Cardinality({tbl[i][col] : i \in DOMAIN tbl})

\* Series.nunique(): the number of distinct non-null values.
Nunique(tbl, col) ==
    Cardinality({tbl[i][col] : i \in DOMAIN tbl} \ {NaN})

\* Lines 221-227.
kpi_metrics(tbl, cols) ==
    [farmers  |-> IF "FarmerID" \in cols THEN Nunique(tbl, "FarmerID")
                  ELSE IF "FarmerName" \in cols THEN Nunique(tbl, "FarmerName")
                  ELSE 0,
     devices  |-> IF "DeviceID" \in cols THEN Nunique(tbl, "DeviceID") ELSE 0,
     readings |-> Len(tbl)]

\* subset=["DeviceID","Timestamp"]: null cells compare equal to each other.
DupKey(r) == <<r.DeviceID, r.Timestamp>>

\* DataFrame.duplicated(subset, keep=False): every occurrence of a repeated
\* key is marked.
duplicatedKeepFalse(tbl) ==
    [i \in DOMAIN tbl |->
        \E j \in DOMAIN tbl : j # i /\ DupKey(tbl[j]) = DupKey(tbl[i])]

\* DataFrame.duplicated(subset): the occurrences after the first are marked.
duplicated(tbl) ==
    [i \in DOMAIN tbl |->
        \E j \in 1..(i - 1) : DupKey(tbl[j]) = DupKey(tbl[i])]

\* frame[mask]: the rows whose mask is true, in frame order.
Masked(tbl, mask) ==
    LET F[i \in 0..Len(tbl)] ==
            IF i = 0 THEN <<>>
            ELSE IF mask[i] THEN Append(F[i - 1], tbl[i]) ELSE F[i - 1]
    IN F[Len(tbl)]

\* sort_values(["DeviceID","Timestamp"]): ascending, nulls last, rows of
\* equal key in frame order.
DeviceRank == ("D1" :> 1) @@ ("D2" :> 2) @@ (NaN :> 3)
StampRank(t) == IF t = NaT THEN 3 ELSE t
Before(a, b) ==
    \/ DeviceRank[a.DeviceID] < DeviceRank[b.DeviceID]
    \/ /\ a.DeviceID = b.DeviceID
       /\ StampRank(a.Timestamp) < StampRank(b.Timestamp)

RECURSIVE sort_values(_)
sort_values(tbl) ==
    IF tbl = <<>> THEN <<>>
    ELSE LET r == tbl[Len(tbl)]
             sorted == sort_values(SubSeq(tbl, 1, Len(tbl) - 1))
             k == Cardinality({i \in DOMAIN sorted : ~Before(r, sorted[i])})
         IN SubSeq(sorted, 1, k) \o <<r>> \o SubSeq(sorted, k + 1, Len(sorted))

\* Line 565 with keep=False: every occurrence of a repeated key is counted.
DuplicateCountAll(tbl) ==
    Cardinality({i \in DOMAIN tbl : duplicatedKeepFalse(tbl)[i]})

\* Line 565: the number of marked rows.
DuplicateCount(tbl) ==
    Cardinality({i \in DOMAIN tbl : duplicated(tbl)[i]})

\* Lines 567-569: the list, shown only when the count is positive.
DuplicateList(tbl) ==
    IF DuplicateCount(tbl) > 0
    THEN sort_values(Masked(tbl, duplicatedKeepFalse(tbl)))
    ELSE <<>>

\* Line 580 with <= and >= : the bounds themselves are flagged.
FlagOutOfRangeInclusive(tbl, lo, hi) ==
    SelectSeq(tbl, LAMBDA r : /\ r.WaterLevel # NaNLevel
                              /\ (r.WaterLevel <= lo \/ r.WaterLevel >= hi))

\* Line 580: notna() & ((level < low) | (level > high)).
FlagOutOfRange(tbl, lo, hi) ==
    SelectSeq(tbl, LAMBDA r : /\ r.WaterLevel # NaNLevel
                              /\ (r.WaterLevel < lo \/ r.WaterLevel > hi))

InitQuality ==
    /\ SessionInit
    /\ event = "init"
    /\ df = <<>> /\ sel = NoSel /\ date_range = DefaultDateRange
    /\ columns \in Schemas
    /\ working \in QualityFrames(columns)
    /\ low \in LowInputs
    /\ high \in HighInputs
    /\ kpi = [farmers |-> 0, devices |-> 0, readings |-> 0]
    /\ dup = 0
    /\ ddf = <<>>
    /\ flagged = <<>>
    /\ StatusIdle
    /\ FeedbackIdle
    /\ ConcIdle

\* Line 289: kpi_metrics(working).
KpiBlock ==
    /\ event = "init"
    /\ kpi' = kpi_metrics(working, columns)
    /\ event' = "kpi"
    /\ UNCHANGED <<session, filterVars, statusVars, feedbackVars, concVars,
                   columns, dup, ddf, low, high, flagged>>

\* Lines 563-571: the duplicate metric and list.
DuplicatesBlock ==
    /\ event = "kpi"
    /\ "DeviceID" \in columns /\ "Timestamp" \in columns
    /\ dup' = DuplicateCount(working)
    /\ ddf' = DuplicateList(working)
    /\ event' = "duplicates"
    /\ UNCHANGED <<session, filterVars, statusVars, feedbackVars, concVars,
                   columns, kpi, low, high, flagged>>

\* Lines 574-586: the out-of-range flags.
OutOfRangeBlock ==
    /\ event = "duplicates"
    /\ "WaterLevel" \in columns
    /\ flagged' = FlagOutOfRange(working, low, high)
    /\ event' = "flagged"
    /\ UNCHANGED <<session, filterVars, statusVars, feedbackVars, concVars,
                   columns, kpi, dup, ddf, low, high>>

NextQuality == KpiBlock \/ DuplicatesBlock \/ OutOfRangeBlock

SpecQuality == InitQuality /\ [][NextQuality]_vars

\* The distinct non-null values of a column of the working subset, and the
\* number of rows of a list equal to a given row.
DistinctValues(col) == {working[i][col] : i \in DOMAIN working} \ {NaN}
Occurrences(rows, r) == Cardinality({i \in DOMAIN rows : rows[i] = r})
KpiShown == event \in {"kpi", "duplicates", "flagged"}

\* C14: farmerCount counts the distinct non-null FarmerName values, whatever
\* the columns of the dataset; deviceCount the distinct non-null DeviceID
\* values; readingCount the rows; all three are 0 for an empty subset.
C14_KpiCounts ==
    KpiShown =>
        /\ kpi.farmers = Cardinality(DistinctValues("FarmerName"))
        /\ kpi.devices = Cardinality(DistinctValues("DeviceID"))
        /\ kpi.readings = Len(working)
        /\ (working = <<>> => kpi = [farmers |-> 0, devices |-> 0, readings |-> 0])

\* C14 as amended: farmerCount counts the distinct non-null FarmerID values
\* when the dataset has a FarmerID column, and the FarmerName values otherwise.
C14_KpiCountsByFarmerID ==
    KpiShown =>
        /\ kpi.farmers = IF "FarmerID" \in columns
                         THEN Cardinality(DistinctValues("FarmerID"))
                         ELSE Cardinality(DistinctValues("FarmerName"))
        /\ kpi.devices = Cardinality(DistinctValues("DeviceID"))
        /\ kpi.readings = Len(working)
        /\ (working = <<>> => kpi = [farmers |-> 0, devices |-> 0, readings |-> 0])

\* C14 witness: two farmers of the same name under different FarmerIDs, and
\* a reading without farmer and device.
C14_Witness ==
    /\ KpiShown /\ "FarmerID" \in columns
    /\ Cardinality(DistinctValues("FarmerName")) = 1
    /\ kpi.farmers = 2
    /\ \E i \in DOMAIN working : working[i].DeviceID = NaN /\ working[i].FarmerID = NaN
    /\ kpi.readings = 3

\* The rows of the working subset that share their key with another row.
KeyRepeats(r) ==
    Cardinality({i \in DOMAIN working : DupKey(working[i]) = DupKey(r)}) >= 2
DuplicatesShown == event \in {"duplicates", "flagged"}

\* C15: the duplicate count is rows minus distinct keys; the list holds
\* every occurrence of every repeated key and nothing else, and is shown
\* exactly when the count is positive.
C15_Duplicates ==
    DuplicatesShown =>
        /\ dup = Len(working) - Cardinality({DupKey(working[i]) : i \in DOMAIN working})
        /\ (ddf # <<>>) <=> (dup > 0)
        /\ \A i \in DOMAIN ddf : Occurrences(working, ddf[i]) >= 1
        /\ \A i \in DOMAIN working :
              Occurrences(ddf, working[i]) =
                 IF KeyRepeats(working[i]) THEN Occurrences(working, working[i]) ELSE 0

\* C15 witness: two rows with one key, next to a row with a key of its own.
C15_Witness ==
    /\ DuplicatesShown
    /\ Len(working) = 3
    /\ DupKey(working[1]) = DupKey(working[3])
    /\ working[1] # working[3]
    /\ DupKey(working[2]) # DupKey(working[1])
    /\ dup = 1 /\ Len(ddf) = 2

\* What the claim calls out of range.
OutOfRange(r) ==
    /\ r.WaterLevel # NaNLevel
    /\ (r.WaterLevel < low \/ r.WaterLevel > high)

\* C16: the flagged rows are exactly the rows of the subset with a non-null
\* WaterLevel strictly below low or strictly above high.
C16_OutOfRange ==
    event = "flagged" =>
        /\ \A i \in DOMAIN flagged :
              /\ Occurrences(working, flagged[i]) >= 1
              /\ flagged[i].WaterLevel # NaNLevel
              /\ flagged[i].WaterLevel # low /\ flagged[i].WaterLevel # high
        /\ \A i \in DOMAIN working :
              Occurrences(flagged, working[i]) =
                 IF OutOfRange(working[i]) THEN Occurrences(working, working[i]) ELSE 0

\* C16 witness: the levels 10, 20, 30, 1000 with low = 0 and high = 100.
C16_Witness ==
    /\ event = "flagged" /\ low = 0 /\ high = 100
    /\ Len(working) = 4
    /\ working[1].WaterLevel = 10 /\ working[2].WaterLevel = 20
    /\ working[3].WaterLevel = 30 /\ working[4].WaterLevel = 1000
    /\ flagged = <<working[4]>>

(***************************************************************************)
(* Feedback tab: feedbacks.csv and feedback_history/<ID>.json              *)
(*                                                                         *)
(* A row of the CSV file is a record of cells as written in the file:      *)
(* text cells are strings ("" for an empty cell), ID and Timestamp the     *)
(* uuid and the clock reading of the submission, Satisfaction the rating   *)
(* (SatBlank for an empty cell; read_csv and to_csv keep its numeric       *)
(* value).  A data frame read from the file holds NaN in the text cells    *)
(* that read_csv takes for missing.                                        *)
(***************************************************************************)
MaxSubmissions == 2

SatMin == 1
SatMax == 5
SatBlank == 0

StatusChoices == {"Approved", "Not Approved", "Changes Required"}

\* What is typed into a text area.  "nan" is str(NaN), the admin text
\* area's initial value for an entry without comment (line 701).
TextInputs == {"", " ", " ok ", "N/A"}
CommentInputs == {" ok "}
AdminNoteInputs == {"", " ok ", "nan"}
SatInputs == {SatMin, SatMax}

\* Who uses the feedback tab in the model: the admin, a client and an
\* unknown name.
FeedbackUsers == {"admin", "AVPN", "guest"}

\* str.strip() on the texts of the model.
Strip(t) == CASE t = " " -> "" [] t = " ok " -> "ok" [] OTHER -> t

\* pd.read_csv's default na_values, as far as the texts of the model go.
NaValues == {"", "N/A", "nan"}

TextFields == {"Client", "Status", "Reason", "Changes", "Comment", "AdminComment"}

\* pd.read_csv(FEEDBACK_FILE): a text cell holding an NA value reads as NaN.
read_csv(file) ==
    [i \in DOMAIN file |->
        [f \in DOMAIN file[i] |->
            IF f \in TextFields /\ file[i][f] \in NaValues THEN NaN ELSE file[i][f]]]

\* DataFrame.to_csv(FEEDBACK_FILE, index=False): NaN is written as an empty
\* cell, a string as it is.
to_csv(fr) ==
    [i \in DOMAIN fr |->
        [f \in DOMAIN fr[i] |->
            IF f \in TextFields /\ fr[i][f] = NaN THEN "" ELSE fr[i][f]]]

\* Lines 628-636: the widgets shown depend on the status picked; a text
\* area that is not shown contributes "" and no slider means no rating.
FormInputs ==
    {[fb_status |-> "Approved", fb_sat |-> n, fb_reason |-> "",
      fb_changes |-> "", fb_comment |-> c] : n \in SatInputs, c \in CommentInputs}
    \cup
    {[fb_status |-> "Not Approved", fb_sat |-> SatBlank, fb_reason |-> t,
      fb_changes |-> "", fb_comment |-> c] : t \in TextInputs, c \in CommentInputs}
    \cup
    {[fb_status |-> "Changes Required", fb_sat |-> SatBlank, fb_reason |-> "",
      fb_changes |-> t, fb_comment |-> c] : t \in TextInputs, c \in CommentInputs}

\* Lines 631-633, with the slider's default kept when no slider is shown.
satisfactionDefaulted(f) ==
    IF f.fb_status = "Approved" THEN f.fb_sat ELSE SatMax

\* Lines 631-633: satisfaction is None unless the status is Approved.
satisfaction(f) ==
    IF f.fb_status = "Approved" THEN f.fb_sat ELSE SatBlank

\* Lines 635-636.
reason(f) == IF f.fb_status = "Not Approved" THEN f.fb_reason ELSE ""
changes(f) == IF f.fb_status = "Changes Required" THEN f.fb_changes ELSE ""

\* Lines 639-642 without the strip(): only the empty text is refused.
ValidUnstripped(f) ==
    /\ ~(f.fb_status = "Not Approved" /\ reason(f) = "")
    /\ ~(f.fb_status = "Changes Required" /\ changes(f) = "")

\* Lines 639-642: the required text must not be blank.
Valid(f) ==
    /\ ~(f.fb_status = "Not Approved" /\ Strip(reason(f)) = "")
    /\ ~(f.fb_status = "Changes Required" /\ Strip(changes(f)) = "")

\* Lines 644-655: the row of a submission.
NewRow(f, fb_id, now, cn) ==
    [ID |-> fb_id,
     Timestamp |-> now,
     Client |-> cn,
     Status |-> f.fb_status,
     Satisfaction |-> satisfaction(f),
     Reason |-> Strip(reason(f)),
     Changes |-> Strip(changes(f)),
     Comment |-> Strip(f.fb_comment),
     AdminComment |-> ""]

\* Lines 656-664: the frame written back.  When the file exists and cannot
\* be read (`readable` false), the except branch keeps the new row alone.
OutFrame(row, readable) ==
    IF csv_exists
    THEN IF readable THEN read_csv(csv) \o <<row>> ELSE <<row>>
    ELSE <<row>>

\* Lines 626-673: the Submit button of a client session.
Submit(f, readable) ==
    /\ authenticated /\ role = "client"
    /\ IF ~Valid(f)
       THEN /\ form' = f
            /\ event' = "rejected"
            /\ UNCHANGED store
       ELSE /\ issued < MaxSubmissions
            /\ LET fb_id == issued + 1
                   row == NewRow(f, fb_id, issued + 1, client_name)
               IN /\ csv' = to_csv(OutFrame(row, readable))
                  /\ csv_exists' = TRUE
                  /\ history' = (fb_id :> row) @@ history
                  /\ issued' = issued + 1
            /\ form' = NoForm
            /\ event' = "submitted"
    /\ UNCHANGED <<session, filterVars, statusVars, qualityVars, concVars>>

\* Lines 675-720: "Save Admin Comment" in a session that is not a client's.
\* The file is read, one AdminComment is set, the whole frame is written
\* back, and the row as read becomes the entry's JSON document.
AdminSave(sel_row_index, admin_note) ==
    /\ authenticated /\ role # "client"
    /\ csv_exists /\ Len(csv) > 0
    /\ sel_row_index \in DOMAIN csv
    /\ LET fb == [read_csv(csv) EXCEPT
                     ![sel_row_index].AdminComment = Strip(admin_note)]
       IN /\ csv' = to_csv(fb)
          /\ history' = (fb[sel_row_index].ID :> fb[sel_row_index]) @@ history
    /\ event' = "admin_saved"
    /\ UNCHANGED <<session, filterVars, statusVars, csv_exists, issued, form,
                   qualityVars, concVars>>

FilterIdle ==
    /\ df = <<>>
    /\ sel = NoSel
    /\ date_range = DefaultDateRange
    /\ working = <<>>

Init ==
    /\ SessionInit
    /\ event = "init"
    /\ FilterIdle
    /\ StatusIdle
    /\ FeedbackIdle
    /\ QualityIdle
    /\ ConcIdle

\* Lines 50-72: a run that ends at the login gate renders no feedback
\* widget, so Streamlit drops the fb_* widget state.
Login ==
    /\ \E u \in FeedbackUsers, p \in PasswordInputs : do_login(u, p)
    /\ form' = NoForm
    /\ UNCHANGED <<filterVars, statusVars, store, qualityVars, concVars>>

Logout ==
    /\ do_logout
    /\ form' = NoForm
    /\ UNCHANGED <<filterVars, statusVars, store, qualityVars, concVars>>

SubmitFeedback ==
    \E f \in FormInputs, readable \in (IF csv_exists THEN BOOLEAN ELSE {TRUE}) :
        Submit(f, readable)

SaveAdminComment ==
    \E i \in 1..MaxSubmissions, note \in AdminNoteInputs : AdminSave(i, note)

Next == Login \/ Logout \/ SubmitFeedback \/ SaveAdminComment

Spec == Init /\ [][Next]_vars

IDs(file) == {file[i].ID : i \in DOMAIN file}

\* C6: every entry ever stored stays in the log, and a submission adds
\* exactly one entry.
C6_AppendOnly ==
    [][/\ IDs(csv) \subseteq IDs(csv')
       /\ event' = "submitted" => Len(csv') = Len(csv) + 1]_vars

\* A submission whose required text (Reason for Not Approved, Changes for
\* Changes Required) is empty or whitespace only.
BlankRequired(f) ==
    \/ f.fb_status = "Not Approved" /\ f.fb_reason \in {"", " "}
    \/ f.fb_status = "Changes Required" /\ f.fb_changes \in {"", " "}

\* C7: pressing Submit with a blank required text leaves the CSV, the
\* history directory and the uuid counter as they were.
C7_RejectedBeforePersist ==
    [][\A f \in FormInputs :
          (BlankRequired(f) /\ \E readable \in BOOLEAN : Submit(f, readable))
          => (event' = "rejected" /\ UNCHANGED store)]_vars

\* C7 witness: a whitespace-only Changes text was refused while the log
\* already held an entry.
C7_Witness ==
    /\ event = "rejected"
    /\ form.fb_status = "Changes Required" /\ form.fb_changes = " "
    /\ csv_exists /\ Len(csv) = 1 /\ DOMAIN history = {1}

\* The conditional-field rule on a stored entry.
FieldRule(e) ==
    /\ (e.Status = "Approved") <=> (e.Satisfaction \in SatMin..SatMax)
    /\ (e.Status # "Approved") <=> (e.Satisfaction = SatBlank)
    /\ (e.Status = "Not Approved") <=> (e.Reason \notin {"", " "})
    /\ (e.Status = "Changes Required") <=> (e.Changes \notin {"", " "})
    /\ e.AdminComment = ""

\* C8: the entry a submission writes (the last row of the CSV and its JSON
\* document) satisfies the conditional-field rule, with an empty
\* AdminComment.
C8_ConditionalFields ==
    event = "submitted" =>
        /\ Len(csv) > 0
        /\ csv[Len(csv)].ID = issued
        /\ FieldRule(csv[Len(csv)])
        /\ issued \in DOMAIN history /\ FieldRule(history[issued])

\* C8 witness: a second entry, Not Approved with its reason, was appended.
C8_Witness ==
    /\ event = "submitted" /\ Len(csv) = 2
    /\ csv[2].Status = "Not Approved" /\ csv[2].Reason = "ok"
    /\ csv[1].Status = "Approved"

\* C9: an admin-comment save changes the AdminComment of one entry and
\* nothing else in the log.
C9_OnlyAdminComment ==
    [][event' = "admin_saved" =>
          /\ Len(csv') = Len(csv)
          /\ \E k \in DOMAIN csv :
                /\ csv'[k] = [csv[k] EXCEPT !.AdminComment = csv'[k].AdminComment]
                /\ \A i \in DOMAIN csv \ {k} : csv'[i] = csv[i]]_vars

\* A JSON document and a CSV row hold the same entry: NaN in the document
\* stands for the empty cell.
SameEntry(doc, row) ==
    \A f \in DOMAIN row :
        (IF f \in TextFields /\ doc[f] = NaN THEN "" ELSE doc[f]) = row[f]

\* C10: every entry of the CSV has its JSON document, equal to its row.
C10_JsonMirrorsCsv ==
    \A i \in DOMAIN csv :
        /\ csv[i].ID \in DOMAIN history
        /\ SameEntry(history[csv[i].ID], csv[i])

\* C18: the store changes only in an authenticated session; an entry is
\* appended only by a client session and carries that session's client_name;
\* the AdminComment of an existing entry changes only in an admin session.
C18_GatedBySession ==
    [][/\ (csv' # csv \/ history' # history) => authenticated
       /\ \A j \in DOMAIN csv' :
             csv'[j].ID \notin IDs(csv) =>
                (role = "client" /\ csv'[j].Client = client_name)
       /\ (\E i \in DOMAIN csv, j \in DOMAIN csv' :
               /\ csv[i].ID = csv'[j].ID
               /\ csv[i].AdminComment # csv'[j].AdminComment)
          => role = "admin"]_vars

(***************************************************************************)
(* Two sessions on the feedback log                                        *)
(*                                                                         *)
(* Each session runs the script on its own; a feedback operation reads     *)
(* feedbacks.csv (lines 659, 678) and later writes it (lines 665, 706),    *)
(* and the other session's steps may fall in between.  proc[p] is the      *)
(* operation of session p: who is logged in, where it stands, the frame it *)
(* read (snap), the frame it is about to write (out), and the clock at its *)
(* read and at its write.                                                  *)
(***************************************************************************)
Procs == {1, 2}

ConcUsers == {"admin", "AVPN", "CIPT"}

IdleProc(u) ==
    [user |-> u, pc |-> "idle", kind |-> "none", fb_id |-> 0, index |-> 0,
     note |-> "", snap |-> <<>>, out |-> <<>>, readAt |-> 0, wroteAt |-> 0]

\* Line 665 / 706 in append mode: the last row of the frame is added to
\* whatever the file holds.
WrittenLogAppended(file, out) ==
    file \o <<to_csv(out)[Len(out)]>>

\* Lines 665 and 706: to_csv(FEEDBACK_FILE) replaces the file, whatever it
\* holds by then, with the frame built from the session's own read.
WrittenLog(file, out) == to_csv(out)

\* The log the two sessions find: none yet, or one entry of an earlier
\* submission by AVPN with its JSON document.
InitConc ==
    /\ SessionInit
    /\ event = "init"
    /\ FilterIdle
    /\ StatusIdle
    /\ QualityIdle
    /\ form = NoForm
    /\ \/ /\ csv_exists = FALSE
          /\ csv = <<>>
          /\ history = <<>>
          /\ issued = 0
       \/ \E f \in FormInputs :
             /\ Valid(f)
             /\ csv_exists = TRUE
             /\ csv = to_csv(<<NewRow(f, 1, 1, "AVPN")>>)
             /\ history = (1 :> NewRow(f, 1, 1, "AVPN"))
             /\ issued = 1
    /\ proc \in {[p \in Procs |-> IdleProc(u[p])] : u \in [Procs -> ConcUsers]}
    /\ clock = 0

\* Lines 638-664 in the session of a client: validation, the uuid, the row,
\* the read of the file and the frame `out`.
ReadForSubmit(p, f, readable) ==
    /\ proc[p].pc = "idle"
    /\ USERS[proc[p].user].role = "client"
    /\ IF ~Valid(f)
       THEN /\ proc' = [proc EXCEPT ![p].pc = "rejected"]
            /\ UNCHANGED <<issued, clock>>
       ELSE LET fb_id == issued + 1
                row == NewRow(f, fb_id, issued + 1, USERS[proc[p].user].client_name)
            IN /\ proc' = [proc EXCEPT ![p] =
                              [@ EXCEPT !.pc = "write", !.kind = "submit",
                                        !.fb_id = fb_id,
                                        !.snap = IF csv_exists /\ readable
                                                 THEN read_csv(csv) ELSE <<>>,
                                        !.out = OutFrame(row, readable),
                                        !.index = Len(OutFrame(row, readable)),
                                        !.readAt = clock + 1]]
               /\ issued' = issued + 1
               /\ clock' = clock + 1
    /\ event' = "read"
    /\ UNCHANGED <<session, filterVars, statusVars, qualityVars,
                   csv_exists, csv, history, form>>

\* Lines 677-705 in the session of the admin: the read of the file and the
\* frame with the comment set.  A file that cannot be read ends the run.
ReadForSave(p, sel_row_index, admin_note, readable) ==
    /\ proc[p].pc = "idle"
    /\ USERS[proc[p].user].role # "client"
    /\ csv_exists
    /\ IF ~readable
       THEN /\ proc' = [proc EXCEPT ![p].pc = "failed"]
            /\ UNCHANGED clock
       ELSE LET fb == read_csv(csv)
            IN /\ sel_row_index \in DOMAIN fb
               /\ proc' = [proc EXCEPT ![p] =
                              [@ EXCEPT !.pc = "write", !.kind = "save",
                                        !.fb_id = fb[sel_row_index].ID,
                                        !.index = sel_row_index,
                                        !.note = admin_note,
                                        !.snap = fb,
                                        !.out = [fb EXCEPT ![sel_row_index].AdminComment
                                                               = Strip(admin_note)],
                                        !.readAt = clock + 1]]
               /\ clock' = clock + 1
    /\ event' = "read"
    /\ UNCHANGED <<session, filterVars, statusVars, qualityVars,
                   csv_exists, csv, history, issued, form>>

\* Lines 665-669 and 706-716: the file is written, then the JSON document.
WriteLog(p) ==
    /\ proc[p].pc = "write"
    /\ csv' = WrittenLog(csv, proc[p].out)
    /\ csv_exists' = TRUE
    /\ history' = (proc[p].fb_id :> proc[p].out[proc[p].index]) @@ history
    /\ proc' = [proc EXCEPT ![p].pc = "done", ![p].wroteAt = clock + 1]
    /\ clock' = clock + 1
    /\ event' = "written"
    /\ UNCHANGED <<session, filterVars, statusVars, qualityVars, issued, form>>

SubmitRead ==
    \E p \in Procs, f \in FormInputs,
       readable \in (IF csv_exists THEN BOOLEAN ELSE {TRUE}) :
        ReadForSubmit(p, f, readable)

SaveRead ==
    \E p \in Procs, i \in DOMAIN csv, note \in AdminNoteInputs,
       readable \in BOOLEAN :
        ReadForSave(p, i, note, readable)

Write == \E p \in Procs : WriteLog(p)

NextConc == SubmitRead \/ SaveRead \/ Write

SpecConc == InitConc /\ [][NextConc]_vars

\* Both sessions have written; the one that wrote last and the other one.
BothWrote == \A p \in Procs : proc[p].pc = "done"
LastWriter == CHOOSE p \in Procs : \A q \in Procs : proc[q].wroteAt <= proc[p].wroteAt
EarlierWriter == CHOOSE p \in Procs : p # LastWriter

\* The snapshot a session read plus its own change, as a file: the new row
\* after the rows read, or the rows read with the one comment set.
SnapshotPlusChange(p) ==
    IF proc[p].kind = "submit"
    THEN to_csv(proc[p].snap) \o <<history[proc[p].fb_id]>>
    ELSE [i \in DOMAIN proc[p].snap |->
             IF i = proc[p].index
             THEN [to_csv(proc[p].snap)[i] EXCEPT !.AdminComment = Strip(proc[p].note)]
             ELSE to_csv(proc[p].snap)[i]]

\* The earlier writer made a visible change and the log shows it, not as
\* the later writer's own identical change.
ChangePresent(e, l) ==
    IF proc[e].kind = "submit"
    THEN proc[e].fb_id \in IDs(csv)
    ELSE /\ to_csv(proc[e].snap)[proc[e].index].AdminComment # Strip(proc[e].note)
         /\ ~(/\ proc[l].kind = "save"
              /\ proc[l].fb_id = proc[e].fb_id
              /\ Strip(proc[l].note) = Strip(proc[e].note))
         /\ \E i \in DOMAIN csv :
               /\ csv[i].ID = proc[e].fb_id
               /\ csv[i].AdminComment = Strip(proc[e].note)

\* C11: once both sessions have written, the log is the last writer's
\* snapshot plus its own change, and it holds the earlier writer's change
\* only if the last writer read after the earlier write.
C11_LastWriterWins ==
    BothWrote =>
        /\ csv = SnapshotPlusChange(LastWriter)
        /\ ChangePresent(EarlierWriter, LastWriter)
              => proc[LastWriter].readAt > proc[EarlierWriter].wroteAt

\* C11 witness: the last writer read before the earlier writer wrote, and
\* the earlier writer's entry is gone from the log.
C11_Witness ==
    /\ BothWrote
    /\ proc[LastWriter].readAt < proc[EarlierWriter].wroteAt
    /\ proc[EarlierWriter].kind = "submit"
    /\ proc[LastWriter].kind = "save"
    /\ proc[EarlierWriter].fb_id \notin IDs(csv)
    /\ proc[EarlierWriter].fb_id \in DOMAIN history

====
